---------------------------- MODULE Spec2Model ----------------------------
(***************************************************************************)
(* The name-resolution core of tp_7: the wire codec of src/tp_7/src/lib.rs *)
(* (header, names, questions, records, messages, the name database) and    *)
(* the server of src/tp_7/src/bin/dns_server.rs.                           *)
(*                                                                         *)
(* Bytes are naturals 0..255, byte buffers are sequences of bytes, and a   *)
(* Rust String is the sequence of its UTF-8 bytes.  Offsets are 0-based as *)
(* in the source: data[off] of the source is data[off + 1] here.           *)
(*                                                                         *)
(* A Rust call ends in one of these ways, kept in the field st:            *)
(*   "ok"      it returned Ok(..) / a value                                *)
(*   "err"     it returned Err(..)                                         *)
(*   "panic"   it panicked (index out of bounds, panic!, overflow check)   *)
(*   "diverge" it never returns (the loop of decode_name revisits a state) *)
(***************************************************************************)
EXTENDS Naturals, Sequences, FiniteSets

VARIABLES
    buf,        \* decode_name: the argument data
    dec,        \* decode_name: *offset and the locals of the loop
    msg,        \* codec: the DnsMessage handed to to_bytes
    wire,       \* codec: the result of DnsMessage::to_bytes(msg)
    data,       \* codec: the bytes handed to DnsMessage::from_bytes
    parsed,     \* codec: the result of DnsMessage::from_bytes(data)
    cpc,        \* codec: position of the serialize / cut / parse run
    build,      \* server: the build profile, "debug" or "release"
    database,   \* server: DnsServer.database
    buffer,     \* server: the receive buffer of DnsServer::start
    tasks,      \* server: the handlers spawned so far, in spawn order
    sent,       \* server: the datagrams send_to has put on the network
    recv_errors,\* server: the receive errors logged so far
    server_pc,  \* server: where main is: "new", "recv" (the loop of start), "exit"
    str,        \* names: the &str handed to encode_name
    enc,        \* names: the result of encode_name(str)
    back,       \* names: the result of decode_name(&enc, &mut 0)
    npc,        \* names: position of the encode / decode run
    hdr,        \* headers: the DnsHeader handed to to_bytes
    hdr_bytes,  \* headers: the bytes of the header
    hdr_back,   \* headers: the result of DnsHeader::from_bytes(&hdr_bytes)
    hdr_again,  \* headers: the bytes of the header parsed from hdr_bytes
    hpc,        \* headers: position of the to_bytes / from_bytes run
    added,      \* database: the add_record calls made after SimpleDnsDatabase::new
    calls,      \* client: the calls of DnsClient::query so far, the last one current
    outbox,     \* client: the datagrams send_to has put on the network
    inbox       \* client: the datagrams queued on the client's socket

decodeVars == <<buf, dec>>
codecVars == <<msg, wire, data, parsed, cpc>>
serverVars == <<build, database, buffer, tasks, sent, recv_errors, server_pc>>
nameVars == <<str, enc, back, npc>>
headerVars == <<hdr, hdr_bytes, hdr_back, hdr_again, hpc>>
clientVars == <<calls, outbox, inbox>>
vars ==
    <<buf, dec, msg, wire, data, parsed, cpc, build, database, buffer, tasks, sent, recv_errors,
      server_pc, str, enc, back, npc, hdr, hdr_bytes, hdr_back, hdr_again, hpc, added, calls,
      outbox, inbox>>

\* no call of DnsClient::query was made
ClientIdle == calls = <<>> /\ outbox = <<>> /\ inbox = <<>>

---------------------------------------------------------------------------
(* Bounds of the model.                                                    *)

\* longest byte buffer enumerated for decode_name
MaxBuf == 5

\* most questions in a message handed to to_bytes
MaxQuestions == 2

\* most answers in a message handed to to_bytes
MaxAnswers == 2

\* datagrams the server receives in one run
MaxDatagrams == 3

\* worker threads of the runtime that polls the spawned handlers
NumWorkers == 2

\* receive errors in one run
MaxRecvErrors == 1

\* most labels in a name handed to encode_name
MaxLabels == 2

\* most add_record calls after SimpleDnsDatabase::new
MaxAdds == 2

\* most calls of DnsClient::query on one client: main makes one, and
\* compare_with_public_dns three more
MaxCalls == 3

\* most datagrams waiting in the receive queue of the client's socket
MaxInbox == 1

---------------------------------------------------------------------------
(* Byte and sequence helpers.                                              *)

Byte == 0..255

\* write_u16::<BigEndian>
be16(x) == <<(x \div 256) % 256, x % 256>>

\* a u32 is held as its two 16-bit halves <<high, low>>: the model checker's
\* integers stop at 2^31 - 1
u32(high, low) == <<high, low>>

\* write_u32::<BigEndian>
be32(x) == be16(x[1]) \o be16(x[2])

\* read_u16::<BigEndian> at 0-based offset off
rd16(d, off) == d[off + 1] * 256 + d[off + 2]

\* read_u32::<BigEndian> at 0-based offset off
rd32(d, off) == u32(d[off + 1] * 256 + d[off + 2], d[off + 3] * 256 + d[off + 4])

\* data[from..to] of the source (0-based, to exclusive)
Slice(d, from, to) == SubSeq(d, from + 1, to)

Bit(b) == IF b THEN 1 ELSE 0

\* F applied to the value of e: "let v = e; F(v)", with e computed once
bind(e, F(_)) == CHOOSE r \in {F(v) : v \in {e}} : TRUE

\* n bytes b
Repeat(b, n) == [i \in 1..n |-> b]

\* the sequences of ss, one after the other
RECURSIVE Concat(_)
Concat(ss) ==
    IF ss = <<>> THEN <<>>
    ELSE Head(ss) \o Concat(Tail(ss))

\* all sequences over S of length at most n
SeqsUpTo(S, n) == UNION {[1..k -> S] : k \in 0..n}

---------------------------------------------------------------------------
(* Strings: str::split('.'), [String]::join("."), String::from_utf8_lossy, *)
(* str::to_lowercase.                                                      *)

Dot == 46

\* name.split('.'): the parts between the dots; "" splits into one empty part
RECURSIVE split(_)
split(name) ==
    IF \A i \in 1..Len(name) : name[i] # Dot THEN <<name>>
    ELSE bind(LET i == CHOOSE k \in 1..Len(name) :
                           name[k] = Dot /\ \A j \in 1..(k - 1) : name[j] # Dot
              IN [part |-> SubSeq(name, 1, i - 1), rest |-> SubSeq(name, i + 1, Len(name))],
              LAMBDA c : <<c.part>> \o split(c.rest))

\* name_parts.join(".")
RECURSIVE join(_)
join(parts) ==
    IF parts = <<>> THEN <<>>
    ELSE IF Len(parts) = 1 THEN parts[1]
    ELSE parts[1] \o <<Dot>> \o join(Tail(parts))

\* U+FFFD REPLACEMENT CHARACTER in UTF-8
Replacement == <<239, 191, 189>>

Get(s, i) == IF i <= Len(s) THEN s[i] ELSE 0

IsCont(b) == b \in 128..191

\* core::str::utf8_char_width
Utf8Width(b) ==
    IF b < 128 THEN 1
    ELSE IF b \in 194..223 THEN 2
    ELSE IF b \in 224..239 THEN 3
    ELSE IF b \in 240..244 THEN 4
    ELSE 0

\* the (first, second) byte pairs that may start a 3- or 4-byte sequence
SecondOk(b0, b1) ==
    \/ b0 = 224 /\ b1 \in 160..191
    \/ b0 \in 225..236 /\ b1 \in 128..191
    \/ b0 = 237 /\ b1 \in 128..159
    \/ b0 \in 238..239 /\ b1 \in 128..191
    \/ b0 = 240 /\ b1 \in 144..191
    \/ b0 \in 241..243 /\ b1 \in 128..191
    \/ b0 = 244 /\ b1 \in 128..143

\* [valid |-> the head of s is a well-formed character, n |-> bytes consumed]
Utf8Head(s) ==
    LET w == Utf8Width(s[1]) IN
    IF w = 1 THEN [valid |-> TRUE, n |-> 1]
    ELSE IF w = 2 THEN
        IF IsCont(Get(s, 2)) THEN [valid |-> TRUE, n |-> 2] ELSE [valid |-> FALSE, n |-> 1]
    ELSE IF w = 3 THEN
        IF ~SecondOk(s[1], Get(s, 2)) THEN [valid |-> FALSE, n |-> 1]
        ELSE IF ~IsCont(Get(s, 3)) THEN [valid |-> FALSE, n |-> 2]
        ELSE [valid |-> TRUE, n |-> 3]
    ELSE IF w = 4 THEN
        IF ~SecondOk(s[1], Get(s, 2)) THEN [valid |-> FALSE, n |-> 1]
        ELSE IF ~IsCont(Get(s, 3)) THEN [valid |-> FALSE, n |-> 2]
        ELSE IF ~IsCont(Get(s, 4)) THEN [valid |-> FALSE, n |-> 3]
        ELSE [valid |-> TRUE, n |-> 4]
    ELSE [valid |-> FALSE, n |-> 1]

\* the length of the run of ASCII bytes s starts with
AsciiRun(s) ==
    IF \A j \in 1..Len(s) : s[j] < 128 THEN Len(s)
    ELSE (CHOOSE k \in 1..Len(s) : s[k] >= 128 /\ \A j \in 1..(k - 1) : s[j] < 128) - 1

\* the first chunk of s as from_utf8_lossy writes it, and what is left of s:
\* a run of ASCII bytes, one well-formed character, or U+FFFD for an
\* ill-formed subsequence
lossy_head(s) ==
    IF s[1] < 128
    THEN bind(AsciiRun(s), LAMBDA n : [chunk |-> SubSeq(s, 1, n), rest |-> SubSeq(s, n + 1, Len(s))])
    ELSE bind(Utf8Head(s),
              LAMBDA h : [chunk |-> IF h.valid THEN SubSeq(s, 1, h.n) ELSE Replacement,
                          rest |-> SubSeq(s, h.n + 1, Len(s))])

\* the chunks of s, every ill-formed subsequence written as one U+FFFD
RECURSIVE lossy_chunks(_)
lossy_chunks(s) ==
    IF s = <<>> THEN <<>>
    ELSE bind(lossy_head(s), LAMBDA c : c.chunk \o lossy_chunks(c.rest))

\* String::from_utf8_lossy: ASCII is well formed and comes back unchanged;
\* otherwise every ill-formed subsequence becomes one U+FFFD
from_utf8_lossy(s) ==
    IF \A i \in 1..Len(s) : s[i] < 128 THEN s ELSE lossy_chunks(s)

\* str::to_lowercase on the characters the model uses: ASCII letters are
\* folded, every other byte of the model's names (digits, '.', U+FFFD) has
\* no lowercase mapping
to_lowercase(s) == [i \in 1..Len(s) |-> IF s[i] \in 65..90 THEN s[i] + 32 ELSE s[i]]

---------------------------------------------------------------------------
(* DnsQuestion::encode_name and DnsQuestion::decode_name.                  *)

\* the longest label encode_name accepts
MaxLabel == 63

\* the first byte of a compression pointer: (length & 0xC0) == 0xC0
PointerTag == 192

\* encode_name panics: some part is longer than 63 bytes
encode_name_panics(name) ==
    bind(split(name), LAMBDA parts : \E i \in 1..Len(parts) : Len(parts[i]) > MaxLabel)

\* encode_name without the terminator
encode_name_unterminated(name) ==
    bind(split(name),
         LAMBDA parts : Concat([i \in 1..Len(parts) |-> <<Len(parts[i])>> \o parts[i]]))

\* the bytes encode_name returns when it does not panic
encode_name(name) ==
    bind(split(name),
         LAMBDA parts : Concat([i \in 1..Len(parts) |-> <<Len(parts[i])>> \o parts[i]]) \o <<0>>)

\* the state of decode_name on entry
decode_entry(offset) ==
    [offset |-> offset, jumped |-> FALSE, jump_offset |-> offset,
     name_parts |-> <<>>, st |-> "run", error |-> ""]

\* decode_iter with jump_offset set at every pointer
decode_iter_cursor_follows(d, s) ==
    IF s.offset >= Len(d) THEN [s EXCEPT !.st = "err", !.error = "Nom tronque"]
    ELSE LET length == d[s.offset + 1] IN
         IF length >= PointerTag THEN
             IF s.offset + 1 >= Len(d) THEN [s EXCEPT !.st = "panic"]
             ELSE [s EXCEPT !.jump_offset = s.offset + 2,
                            !.offset = (length % 64) * 256 + d[s.offset + 2],
                            !.jumped = TRUE]
         ELSE IF length = 0 THEN
             [s EXCEPT !.offset = IF s.jumped THEN s.jump_offset ELSE s.offset + 1,
                       !.st = "ok"]
         ELSE IF s.offset + 1 + length > Len(d) THEN
             [s EXCEPT !.offset = s.offset + 1, !.st = "err", !.error = "Label tronque"]
         ELSE [s EXCEPT !.name_parts =
                            Append(@, from_utf8_lossy(Slice(d, s.offset + 1, s.offset + 1 + length))),
                        !.offset = s.offset + 1 + length]

\* one iteration of the loop of decode_name, and the code after the loop when
\* the iteration breaks out of it
decode_iter(d, s) ==
    IF s.offset >= Len(d) THEN [s EXCEPT !.st = "err", !.error = "Nom tronque"]
    ELSE LET length == d[s.offset + 1] IN
         IF length >= PointerTag THEN
             IF s.offset + 1 >= Len(d) THEN [s EXCEPT !.st = "panic"]
             ELSE [s EXCEPT !.jump_offset = IF s.jumped THEN @ ELSE s.offset + 2,
                            !.offset = (length % 64) * 256 + d[s.offset + 2],
                            !.jumped = TRUE]
         ELSE IF length = 0 THEN
             [s EXCEPT !.offset = IF s.jumped THEN s.jump_offset ELSE s.offset + 1,
                       !.st = "ok"]
         ELSE IF s.offset + 1 + length > Len(d) THEN
             [s EXCEPT !.offset = s.offset + 1, !.st = "err", !.error = "Label tronque"]
         ELSE [s EXCEPT !.name_parts =
                            Append(@, from_utf8_lossy(Slice(d, s.offset + 1, s.offset + 1 + length))),
                        !.offset = s.offset + 1 + length]

\* the loop run to its end.  Each iteration is decided by the buffer and the
\* offset alone, so an offset met twice at the head of the loop is met for ever:
\* the call never returns.
RECURSIVE decode_run(_, _, _)
decode_run(d, s, seen) ==
    IF s.st # "run" THEN s
    ELSE IF s.offset \in seen THEN [s EXCEPT !.st = "diverge"]
    ELSE bind(decode_iter(d, s), LAMBDA next : decode_run(d, next, seen \cup {s.offset}))

\* decode_name(data, &mut offset): [st, name, offset]
decode_name(d, offset) ==
    bind(decode_run(d, decode_entry(offset), {}),
         LAMBDA s : [st |-> s.st, name |-> join(s.name_parts), offset |-> s.offset,
                     error |-> s.error])

---------------------------------------------------------------------------
(* DnsRecordType, DnsClass, DnsHeader.                                     *)

\* DnsRecordType: A, NS, CNAME, PTR, MX, AAAA by their codes
TypeA == 1

RecordTypes == {1, 2, 5, 12, 15, 28}

\* DnsClass::IN
ClassIN == 1

DnsRecordType_from_u16(v) == IF v \in RecordTypes THEN <<v>> ELSE <<>>

DnsClass_from_u16(v) == IF v = ClassIN THEN <<v>> ELSE <<>>

\* the length of a header on the wire
HeaderLen == 12

\* header_flags with rd and ra in each other's place
header_flags_rd_ra_swapped(h) ==
    Bit(h.qr) * 32768 + (h.opcode % 16) * 2048 + Bit(h.aa) * 1024 + Bit(h.tc) * 512
        + Bit(h.rd) * 128 + Bit(h.ra) * 256 + (h.z % 8) * 16 + (h.rcode % 16)

\* the flags word of DnsHeader::to_bytes; the fields do not overlap, so the
\* bitwise "or" of the source is a sum
header_flags(h) ==
    Bit(h.qr) * 32768 + (h.opcode % 16) * 2048 + Bit(h.aa) * 1024 + Bit(h.tc) * 512
        + Bit(h.rd) * 256 + Bit(h.ra) * 128 + (h.z % 8) * 16 + (h.rcode % 16)

DnsHeader_to_bytes(h) ==
    be16(h.id) \o be16(header_flags(h)) \o be16(h.qdcount) \o be16(h.ancount)
        \o be16(h.nscount) \o be16(h.arcount)

\* header_of with opcode read as a 3-bit field
header_of_opcode_3_bits(d) ==
    LET flags == rd16(d, 2) IN
    [id |-> rd16(d, 0),
     qr |-> (flags \div 32768) % 2 = 1,
     opcode |-> (flags \div 2048) % 8,
     aa |-> (flags \div 1024) % 2 = 1,
     tc |-> (flags \div 512) % 2 = 1,
     rd |-> (flags \div 256) % 2 = 1,
     ra |-> (flags \div 128) % 2 = 1,
     z |-> (flags \div 16) % 8,
     rcode |-> flags % 16,
     qdcount |-> rd16(d, 4),
     ancount |-> rd16(d, 6),
     nscount |-> rd16(d, 8),
     arcount |-> rd16(d, 10)]

\* the header DnsHeader::from_bytes returns for at least 12 bytes
header_of(d) ==
    LET flags == rd16(d, 2) IN
    [id |-> rd16(d, 0),
     qr |-> (flags \div 32768) % 2 = 1,
     opcode |-> (flags \div 2048) % 16,
     aa |-> (flags \div 1024) % 2 = 1,
     tc |-> (flags \div 512) % 2 = 1,
     rd |-> (flags \div 256) % 2 = 1,
     ra |-> (flags \div 128) % 2 = 1,
     z |-> (flags \div 16) % 8,
     rcode |-> flags % 16,
     qdcount |-> rd16(d, 4),
     ancount |-> rd16(d, 6),
     nscount |-> rd16(d, 8),
     arcount |-> rd16(d, 10)]

\* DnsHeader::new with the random id drawn
DnsHeader_new(id) ==
    [id |-> id, qr |-> FALSE, opcode |-> 0, aa |-> FALSE, tc |-> FALSE, rd |-> TRUE,
     ra |-> FALSE, z |-> 0, rcode |-> 0, qdcount |-> 0, ancount |-> 0, nscount |-> 0,
     arcount |-> 0]

DnsHeader_from_bytes(d) ==
    IF Len(d) < HeaderLen
    THEN [st |-> "err", error |-> "Header trop court", header |-> DnsHeader_new(0)]
    ELSE [st |-> "ok", error |-> "", header |-> header_of(d)]

---------------------------------------------------------------------------
(* DnsQuestion, DnsRecord, DnsMessage.                                     *)

DnsQuestion_new(name, qtype) == [name |-> name, qtype |-> qtype, qclass |-> ClassIN]

DnsQuestion_to_bytes(q) == encode_name(q.name) \o be16(q.qtype) \o be16(q.qclass)

DnsRecord_new_a_record(name, ip, ttl) ==
    [name |-> name, rtype |-> TypeA, class |-> ClassIN, ttl |-> ttl, data |-> ip]

DnsRecord_to_bytes(r) ==
    encode_name(r.name) \o be16(r.rtype) \o be16(r.class) \o be32(r.ttl)
        \o be16(Len(r.data) % 65536) \o r.data

\* DnsMessage::new with the random id drawn
DnsMessage_new(id) ==
    [header |-> DnsHeader_new(id), questions |-> <<>>, answers |-> <<>>,
     authorities |-> <<>>, additionals |-> <<>>]

DnsMessage_new_query(id, name, qtype) ==
    [DnsMessage_new(id) EXCEPT !.header.qdcount = 1,
                               !.questions = <<DnsQuestion_new(name, qtype)>>]

\* new_response with rcode cleared
DnsMessage_new_response_clears_rcode(query) ==
    [query EXCEPT !.header.qr = TRUE, !.header.ra = TRUE, !.header.rcode = 0, !.answers = <<>>,
                  !.authorities = <<>>, !.additionals = <<>>]

DnsMessage_new_response(query) ==
    [query EXCEPT !.header.qr = TRUE, !.header.ra = TRUE, !.answers = <<>>,
                  !.authorities = <<>>, !.additionals = <<>>]

\* DnsMessage::to_bytes: it panics where encode_name does
DnsMessage_to_bytes(m) ==
    IF \/ \E i \in 1..Len(m.questions) : encode_name_panics(m.questions[i].name)
       \/ \E i \in 1..Len(m.answers) : encode_name_panics(m.answers[i].name)
    THEN [st |-> "panic", bytes |-> <<>>]
    ELSE [st |-> "ok",
          bytes |-> DnsHeader_to_bytes(m.header)
                        \o Concat([i \in 1..Len(m.questions) |-> DnsQuestion_to_bytes(m.questions[i])])
                        \o Concat([i \in 1..Len(m.answers) |-> DnsRecord_to_bytes(m.answers[i])])]

\* what a failed section parse hands back
Failed(st, error) == [st |-> st, error |-> error, offset |-> 0, items |-> <<>>]

\* the question loop of DnsMessage::from_bytes, n iterations left
RECURSIVE parse_questions(_, _, _, _)
parse_questions(d, offset, n, questions) ==
    IF n = 0 THEN [st |-> "ok", error |-> "", offset |-> offset, items |-> questions]
    ELSE IF offset >= Len(d) THEN Failed("err", "Question tronquee")
    ELSE bind(decode_name(d, offset), LAMBDA nm :
         IF nm.st # "ok" THEN Failed(nm.st, nm.error)
         ELSE IF nm.offset + 4 > Len(d) THEN Failed("err", "Question incomplete")
         ELSE IF DnsRecordType_from_u16(rd16(d, nm.offset)) = <<>>
              THEN Failed("err", "Type de question invalide")
         ELSE IF DnsClass_from_u16(rd16(d, nm.offset + 2)) = <<>>
              THEN Failed("err", "Classe de question invalide")
         ELSE parse_questions(d, nm.offset + 4, n - 1,
                  Append(questions, [name |-> nm.name, qtype |-> rd16(d, nm.offset),
                                     qclass |-> rd16(d, nm.offset + 2)])))

\* the answer loop of DnsMessage::from_bytes, n iterations left
RECURSIVE parse_answers(_, _, _, _)
parse_answers(d, offset, n, answers) ==
    LET stop == [st |-> "ok", error |-> "", offset |-> offset, items |-> answers] IN
    IF n = 0 THEN stop
    ELSE IF offset >= Len(d) THEN stop
    ELSE bind(decode_name(d, offset), LAMBDA nm :
         IF nm.st # "ok" THEN Failed(nm.st, nm.error)
         ELSE IF nm.offset + 10 > Len(d) THEN stop
         ELSE LET rtype == rd16(d, nm.offset)
                  class == rd16(d, nm.offset + 2)
                  ttl == rd32(d, nm.offset + 4)
                  rdlength == rd16(d, nm.offset + 8)
                  at == nm.offset + 10
              IN IF at + rdlength > Len(d) THEN stop
                 ELSE parse_answers(d, at + rdlength, n - 1,
                          IF DnsRecordType_from_u16(rtype) # <<>> /\ DnsClass_from_u16(class) # <<>>
                          THEN Append(answers, [name |-> nm.name, rtype |-> rtype, class |-> class,
                                                ttl |-> ttl, data |-> Slice(d, at, at + rdlength)])
                          ELSE answers))

\* DnsMessage::from_bytes: [st, error, msg]
DnsMessage_from_bytes(d) ==
    IF Len(d) < HeaderLen
    THEN [st |-> "err", error |-> "Message trop court", msg |-> DnsMessage_new(0)]
    ELSE bind(DnsHeader_from_bytes(d).header, LAMBDA header :
         bind(parse_questions(d, HeaderLen, header.qdcount, <<>>), LAMBDA q :
         IF q.st # "ok" THEN [st |-> q.st, error |-> q.error, msg |-> DnsMessage_new(0)]
         ELSE bind(parse_answers(d, q.offset, header.ancount, <<>>), LAMBDA a :
              IF a.st # "ok" THEN [st |-> a.st, error |-> a.error, msg |-> DnsMessage_new(0)]
              ELSE [st |-> "ok", error |-> "",
                    msg |-> [header |-> header, questions |-> q.items, answers |-> a.items,
                             authorities |-> <<>>, additionals |-> <<>>]])))

---------------------------------------------------------------------------
(* SimpleDnsDatabase: records is a function from the stored keys to        *)
(* addresses; an Option is a sequence of length 0 or 1.                    *)

N_localhost == <<108, 111, 99, 97, 108, 104, 111, 115, 116>>

N_test_local == <<116, 101, 115, 116, 46, 108, 111, 99, 97, 108>>

N_server_local == <<115, 101, 114, 118, 101, 114, 46, 108, 111, 99, 97, 108>>

N_example_com == <<101, 120, 97, 109, 112, 108, 101, 46, 99, 111, 109>>

N_google_com == <<103, 111, 111, 103, 108, 101, 46, 99, 111, 109>>

\* HashMap::new()
NoRecords == [n \in {} |-> <<>>]

\* add_record that stores the name as it is given
add_record_keeps_case(records, name, ip) ==
    bind(name,
         LAMBDA key : [n \in DOMAIN records \cup {key} |-> IF n = key THEN ip ELSE records[n]])

\* self.records.insert(name.to_lowercase(), ip)
add_record(records, name, ip) ==
    bind(to_lowercase(name),
         LAMBDA key : [n \in DOMAIN records \cup {key} |-> IF n = key THEN ip ELSE records[n]])

\* self.records.get(&name.to_lowercase()).copied()
lookup(records, name) ==
    bind(to_lowercase(name), LAMBDA key : IF key \in DOMAIN records THEN <<records[key]>> ELSE <<>>)

SimpleDnsDatabase_new ==
    add_record(
        add_record(
            add_record(
                add_record(
                    add_record(NoRecords, N_localhost, <<127, 0, 0, 1>>),
                    N_test_local, <<192, 168, 1, 100>>),
                N_server_local, <<192, 168, 1, 1>>),
            N_example_com, <<93, 184, 216, 34>>),
        N_google_com, <<8, 8, 8, 8>>)

---------------------------------------------------------------------------
(* DnsServer::handle_query.                                                *)

\* the ttl of the records the server answers with
AnswerTtl == 300

\* response.header.rcode for a name that does not resolve
NXDOMAIN == 3

\* response.header.rcode for a question that is not of type A
NOTIMP == 4

\* response.header.ancount += 1 on a u16: past 65535 a debug build panics
\* (overflow check) and a release build wraps
bump_ancount(bld, r) ==
    IF r.response.header.ancount + 1 < 65536
    THEN [r EXCEPT !.response.header.ancount = @ + 1]
    ELSE IF bld = "debug" THEN [r EXCEPT !.st = "panic"]
    ELSE [r EXCEPT !.response.header.ancount = 0]

\* process_question with a success that resets rcode to 0
process_question_resets_rcode(records, bld, r, question) ==
    IF question.qtype = TypeA THEN
        bind(lookup(records, question.name), LAMBDA found :
            IF found # <<>> THEN
                bump_ancount(bld,
                    [r EXCEPT !.response.header.rcode = 0,
                              !.response.answers =
                                  Append(@, DnsRecord_new_a_record(question.name, found[1],
                                                                   u32(0, AnswerTtl)))])
            ELSE [r EXCEPT !.response.header.rcode = NXDOMAIN])
    ELSE [r EXCEPT !.response.header.rcode = NOTIMP]

\* the body of the loop over query.questions, for one question
process_question(records, bld, r, question) ==
    IF question.qtype = TypeA THEN
        bind(lookup(records, question.name), LAMBDA found :
            IF found # <<>> THEN
                bump_ancount(bld,
                    [r EXCEPT !.response.answers =
                        Append(@, DnsRecord_new_a_record(question.name, found[1],
                                                         u32(0, AnswerTtl)))])
            ELSE [r EXCEPT !.response.header.rcode = NXDOMAIN])
    ELSE [r EXCEPT !.response.header.rcode = NOTIMP]

\* the loop over query.questions; a panic ends it
RECURSIVE process_questions(_, _, _, _)
process_questions(records, bld, r, questions) ==
    IF questions = <<>> \/ r.st # "ok" THEN r
    ELSE bind(process_question(records, bld, r, Head(questions)),
              LAMBDA next : process_questions(records, bld, next, Tail(questions)))

\* handle_query from new_response to response.to_bytes(): [st, response, bytes]
respond(records, bld, query) ==
    bind(process_questions(records, bld,
             [st |-> "ok", response |-> DnsMessage_new_response(query), bytes |-> <<>>],
             query.questions),
         LAMBDA r : IF r.st # "ok" THEN r
                    ELSE bind(DnsMessage_to_bytes(r.response),
                              LAMBDA b : [r EXCEPT !.st = b.st, !.bytes = b.bytes]))

---------------------------------------------------------------------------
(* DnsServer::start and the spawned handlers.                              *)

\* the length of the receive buffer
BufLen == 512

NoReply == [st |-> "none", response |-> DnsMessage_new(0), bytes |-> <<>>]

\* a handler just spawned with its copy of the datagram and its sender
Task(d, client_addr) ==
    [data |-> d, client_addr |-> client_addr, st |-> "spawned", outcome |-> "",
     query |-> DnsMessage_new(0), reply |-> NoReply]

\* handlers a worker thread is running
Running == {i \in 1..Len(tasks) : tasks[i].st \in {"parsed", "built", "spin"}}

\* recv_from returns Ok((size, client_addr)) with datagram d; the handler is
\* spawned with buffer[..size].to_vec()
recv_from(d, client_addr) ==
    LET size == IF Len(d) < BufLen THEN Len(d) ELSE BufLen IN
    /\ server_pc = "recv"
    /\ buffer' = [i \in 1..BufLen |-> IF i <= size THEN d[i] ELSE buffer[i]]
    /\ tasks' = Append(tasks, Task(SubSeq(buffer', 1, size), client_addr))
    /\ UNCHANGED <<build, database, sent, recv_errors, server_pc, decodeVars, codecVars, nameVars, headerVars, added, clientVars>>

\* recv_error with the error returned from start, as `recv_from(..).await?` does
recv_error_returns ==
    /\ server_pc = "recv"
    /\ recv_errors < MaxRecvErrors
    /\ recv_errors' = recv_errors + 1
    /\ server_pc' = "exit"
    /\ UNCHANGED <<build, database, buffer, tasks, sent, decodeVars, codecVars, nameVars, headerVars, added, clientVars>>

\* recv_from returns Err(e): it is logged and the loop goes on
recv_error ==
    /\ server_pc = "recv"
    /\ recv_errors < MaxRecvErrors
    /\ recv_errors' = recv_errors + 1
    /\ UNCHANGED <<build, database, buffer, tasks, sent, server_pc, decodeVars, codecVars, nameVars, headerVars, added, clientVars>>

\* poll_parse on the shared receive buffer instead of the handler's copy
poll_parse_reads_buffer(i) ==
    /\ tasks[i].st = "spawned"
    /\ Cardinality(Running) < NumWorkers
    /\ tasks' = [tasks EXCEPT ![i] =
           bind(DnsMessage_from_bytes(SubSeq(buffer, 1, Len(tasks[i].data))), LAMBDA r :
               IF r.st = "ok" THEN [tasks[i] EXCEPT !.st = "parsed", !.query = r.msg]
               ELSE IF r.st = "err" THEN [tasks[i] EXCEPT !.st = "done", !.outcome = "dropped"]
               ELSE IF r.st = "panic" THEN [tasks[i] EXCEPT !.st = "done", !.outcome = "panicked"]
               ELSE [tasks[i] EXCEPT !.st = "spin"])]
    /\ UNCHANGED <<build, database, buffer, sent, recv_errors, server_pc, decodeVars, codecVars, nameVars, headerVars, added, clientVars>>

\* a free worker polls handler i: DnsMessage::from_bytes(&data)
poll_parse(i) ==
    /\ tasks[i].st = "spawned"
    /\ Cardinality(Running) < NumWorkers
    /\ tasks' = [tasks EXCEPT ![i] =
           bind(DnsMessage_from_bytes(tasks[i].data), LAMBDA r :
               IF r.st = "ok" THEN [tasks[i] EXCEPT !.st = "parsed", !.query = r.msg]
               ELSE IF r.st = "err" THEN [tasks[i] EXCEPT !.st = "done", !.outcome = "dropped"]
               ELSE IF r.st = "panic" THEN [tasks[i] EXCEPT !.st = "done", !.outcome = "panicked"]
               ELSE [tasks[i] EXCEPT !.st = "spin"])]
    /\ UNCHANGED <<build, database, buffer, sent, recv_errors, server_pc, decodeVars, codecVars, nameVars, headerVars, added, clientVars>>

\* poll_respond that stores the name of the first question in the database
poll_respond_caches(i) ==
    /\ tasks[i].st = "parsed"
    /\ tasks' = [tasks EXCEPT ![i] =
           bind(respond(database, build, tasks[i].query), LAMBDA r :
               IF r.st = "ok" THEN [tasks[i] EXCEPT !.st = "built", !.reply = r]
               ELSE [tasks[i] EXCEPT !.st = "done", !.outcome = "panicked"])]
    /\ database' = IF tasks[i].query.questions = <<>> THEN database
                   ELSE add_record(database, tasks[i].query.questions[1].name, <<0, 0, 0, 0>>)
    /\ UNCHANGED <<build, buffer, sent, recv_errors, server_pc, decodeVars, codecVars, nameVars, headerVars, added, clientVars>>

\* handler i builds and serializes its response
poll_respond(i) ==
    /\ tasks[i].st = "parsed"
    /\ tasks' = [tasks EXCEPT ![i] =
           bind(respond(database, build, tasks[i].query), LAMBDA r :
               IF r.st = "ok" THEN [tasks[i] EXCEPT !.st = "built", !.reply = r]
               ELSE [tasks[i] EXCEPT !.st = "done", !.outcome = "panicked"])]
    /\ UNCHANGED <<build, database, buffer, sent, recv_errors, server_pc, decodeVars, codecVars, nameVars, headerVars, added, clientVars>>

\* socket.send_to(&response_bytes, client_addr) of handler i returns Ok or Err
send_to(i, ok) ==
    /\ tasks[i].st = "built"
    /\ tasks' = [tasks EXCEPT ![i] = [@ EXCEPT !.st = "done",
                                               !.outcome = IF ok THEN "sent" ELSE "send_error"]]
    /\ sent' = IF ok
               THEN Append(sent, [to |-> tasks[i].client_addr, bytes |-> tasks[i].reply.bytes,
                                  task |-> i])
               ELSE sent
    /\ UNCHANGED <<build, database, buffer, recv_errors, server_pc, decodeVars, codecVars, nameVars, headerVars, added, clientVars>>

handler_step ==
    \E i \in 1..Len(tasks) :
        poll_parse(i) \/ poll_respond(i) \/ send_to(i, TRUE) \/ send_to(i, FALSE)

ServerIdle ==
    /\ build = "release"
    /\ database = NoRecords
    /\ buffer = <<>>
    /\ tasks = <<>>
    /\ sent = <<>>
    /\ recv_errors = 0
    /\ server_pc = "idle"

\* the state after DnsServer::new: the socket is bound and the database loaded
ServerStart ==
    /\ build \in {"debug", "release"}
    /\ database = SimpleDnsDatabase_new
    /\ buffer = [i \in 1..BufLen |-> 0]
    /\ tasks = <<>>
    /\ sent = <<>>
    /\ recv_errors = 0
    /\ server_pc = "recv"

\* main before DnsServer::new
ServerNew ==
    /\ build \in {"debug", "release"}
    /\ database = NoRecords
    /\ buffer = <<>>
    /\ tasks = <<>>
    /\ sent = <<>>
    /\ recv_errors = 0
    /\ server_pc = "new"

\* DnsServer::new(&addr, verbose).await? and server.start(): UdpSocket::bind
\* returns Ok, or Err and main returns
DnsServer_new(bound) ==
    /\ server_pc = "new"
    /\ server_pc' = IF bound THEN "recv" ELSE "exit"
    /\ database' = IF bound THEN SimpleDnsDatabase_new ELSE database
    /\ buffer' = IF bound THEN [i \in 1..BufLen |-> 0] ELSE buffer
    /\ UNCHANGED <<build, tasks, sent, recv_errors, decodeVars, codecVars, nameVars, headerVars, added, clientVars>>

---------------------------------------------------------------------------
(* Inputs.                                                                 *)

\* "a"
N_a == <<97>>

\* "ab.c"
N_ab_c == <<97, 98, 46, 99>>

\* "a.": a fully qualified name, written with its trailing dot
N_a_dot == <<97, 46>>

\* a name that is one label of 64 bytes
N_long == Repeat(97, MaxLabel + 1)

\* the bytes decode_name is run on: terminator and short lengths (also pointer
\* targets), a letter, the first byte of a pointer
DecodeBytes == {0, 1, 2, 3, 97, 192}

DecodeBuffers == SeqsUpTo(DecodeBytes, MaxBuf)

\* headers: a fresh query, a response, every bit set, every bit clear
HeaderSamples ==
    {DnsHeader_new(4660),
     [DnsHeader_new(4660) EXCEPT !.qr = TRUE, !.ra = TRUE, !.rcode = 3],
     [id |-> 65535, qr |-> TRUE, opcode |-> 15, aa |-> TRUE, tc |-> TRUE, rd |-> TRUE,
      ra |-> TRUE, z |-> 7, rcode |-> 15, qdcount |-> 0, ancount |-> 0,
      nscount |-> 65535, arcount |-> 65535],
     [DnsHeader_new(0) EXCEPT !.rd = FALSE]}

QuestionSamples ==
    {DnsQuestion_new(N_a, TypeA), DnsQuestion_new(N_ab_c, 28),
     DnsQuestion_new(N_a_dot, TypeA), DnsQuestion_new(N_long, TypeA)}

RecordSamples ==
    {DnsRecord_new_a_record(N_a, <<127, 0, 0, 1>>, u32(0, 300)),
     [name |-> N_ab_c, rtype |-> 15, class |-> ClassIN, ttl |-> u32(65535, 65535), data |-> <<>>],
     [name |-> N_a, rtype |-> 28, class |-> ClassIN, ttl |-> u32(0, 0), data |-> <<1, 2>>]}

\* a message whose counts are the lengths of its sections
Message(h, qs, as) ==
    [header |-> [h EXCEPT !.qdcount = Len(qs), !.ancount = Len(as)],
     questions |-> qs, answers |-> as, authorities |-> <<>>, additionals |-> <<>>]

Messages ==
    {Message(h, qs, as) : h \in HeaderSamples, qs \in SeqsUpTo(QuestionSamples, MaxQuestions),
                          as \in SeqsUpTo(RecordSamples, MaxAnswers)}

\* responses to one question, as a server builds them
Responses ==
    {Message([DnsHeader_new(4660) EXCEPT !.qr = TRUE, !.ra = TRUE],
             <<DnsQuestion_new(N_a, TypeA)>>, as) :
        as \in SeqsUpTo(RecordSamples, MaxAnswers)}

\* a name on the wire, from its labels
wire_name(labels) ==
    Concat([i \in 1..Len(labels) |-> <<Len(labels[i])>> \o labels[i]]) \o <<0>>

\* a question on the wire, from the bytes of its name
wire_question(name_bytes, qtype, qclass) == name_bytes \o be16(qtype) \o be16(qclass)

\* a datagram: the header with qdcount set to n, the questions, what follows them
datagram(h, n, questions, tail) ==
    DnsHeader_to_bytes([h EXCEPT !.qdcount = n]) \o Concat(questions) \o tail

\* "LocalHost"
L_LocalHost == <<76, 111, 99, 97, 108, 72, 111, 115, 116>>

\* the names asked for: localhost, LocalHost, GOOGLE.com, doesnotexist.tld,
\* sub.localhost
WireNames ==
    {wire_name(<<N_localhost>>),
     wire_name(<<L_LocalHost>>),
     wire_name(<<<<71, 79, 79, 71, 76, 69>>, <<99, 111, 109>>>>),
     wire_name(<<<<100, 111, 101, 115, 110, 111, 116, 101, 120, 105, 115, 116>>, <<116, 108, 100>>>>),
     wire_name(<<<<115, 117, 98>>, N_localhost>>)}

\* questions of type A and of type MX
WireQuestions == {wire_question(n, t, ClassIN) : n \in WireNames, t \in {TypeA, 15}}

\* the headers of incoming datagrams: a client's fresh header, and headers that
\* declare an rcode, answers or additional records of their own
QueryHeaders ==
    {[DnsHeader_new(4660) EXCEPT !.rcode = rc, !.ancount = an, !.arcount = ar] :
        rc \in {0, 5}, an \in {0, 1, 65535}, ar \in {0, 1}}

\* fewer than 12 bytes
D_short == <<18, 52, 1>>

\* one question for the root name
D_root == datagram(DnsHeader_new(1), 1, <<wire_question(<<0>>, TypeA, ClassIN)>>, <<>>)

\* one question whose name is a label of 64 bytes
D_long_label ==
    datagram(DnsHeader_new(2), 1,
             <<wire_question(wire_name(<<Repeat(97, MaxLabel + 1)>>), TypeA, ClassIN)>>, <<>>)

\* one question whose name is a label of 22 bytes, none of them UTF-8
D_non_utf8 ==
    datagram(DnsHeader_new(3), 1,
             <<wire_question(wire_name(<<Repeat(255, 22)>>), TypeA, ClassIN)>>, <<>>)

\* one question whose name is a pointer to itself
D_self_pointer ==
    datagram(DnsHeader_new(4), 1, <<wire_question(<<PointerTag, HeaderLen>>, TypeA, ClassIN)>>, <<>>)

\* one question cut after the first byte of a pointer
D_half_pointer == datagram(DnsHeader_new(5), 1, <<>>, <<PointerTag>>)

\* one question of a type outside the enumeration
D_bad_type ==
    datagram(DnsHeader_new(6), 1, <<wire_question(wire_name(<<N_localhost>>), 99, ClassIN)>>, <<>>)

\* one question of a class outside the enumeration
D_bad_class ==
    datagram(DnsHeader_new(7), 1, <<wire_question(wire_name(<<N_localhost>>), TypeA, 3)>>, <<>>)

\* two questions declared, one present
D_missing_question ==
    datagram(DnsHeader_new(8), 2, <<wire_question(wire_name(<<N_localhost>>), TypeA, ClassIN)>>, <<>>)

\* a question followed by an answer record of the sender's own
D_with_answer ==
    datagram([DnsHeader_new(9) EXCEPT !.ancount = 1], 1,
             <<wire_question(wire_name(<<N_localhost>>), TypeA, ClassIN)>>,
             DnsRecord_to_bytes(DnsRecord_new_a_record(N_a, <<10, 0, 0, 1>>, u32(0, 60))))

CraftedDatagrams ==
    {D_short, D_root, D_long_label, D_non_utf8, D_self_pointer, D_half_pointer, D_bad_type,
     D_bad_class, D_missing_question, D_with_answer}

\* the datagrams a single handler is run on
QueryDatagrams ==
    {datagram(h, Len(qs), qs, <<>>) : h \in QueryHeaders, qs \in SeqsUpTo(WireQuestions, MaxQuestions)}
        \cup CraftedDatagrams

\* the datagrams the concurrent server is run on
ConcurrentDatagrams ==
    {datagram(DnsHeader_new(4660), 1, <<wire_question(wire_name(<<N_localhost>>), TypeA, ClassIN)>>, <<>>),
     datagram(DnsHeader_new(22136), 1,
              <<wire_question(wire_name(<<<<115, 117, 98>>, N_localhost>>), TypeA, ClassIN)>>, <<>>),
     D_root,
     D_self_pointer,
     D_short}

\* the senders
Addrs == {"client1", "client2"}

\* a record on the wire, from the bytes of its name: ttl 300
wire_record(name_bytes, rtype, class, rdata) ==
    name_bytes \o be16(rtype) \o be16(class) \o be32(u32(0, 300)) \o be16(Len(rdata)) \o rdata

\* the questions a peer sends: "a" A IN, the same with its name written as a
\* pointer to the first name of the datagram, with type TXT (16, outside the
\* enumeration), with class CH (3)
PeerQuestions ==
    {[name |-> wire_name(<<N_a>>), qtype |-> TypeA, qclass |-> ClassIN],
     [name |-> <<PointerTag, HeaderLen>>, qtype |-> TypeA, qclass |-> ClassIN],
     [name |-> wire_name(<<N_a>>), qtype |-> 16, qclass |-> ClassIN],
     [name |-> wire_name(<<N_a>>), qtype |-> TypeA, qclass |-> 3]}

\* the records a peer sends: "a" A IN, the same with type TXT, with class CH
PeerAnswers ==
    {[name |-> wire_name(<<N_a>>), rtype |-> TypeA, class |-> ClassIN, data |-> <<10, 0, 0, 1>>],
     [name |-> wire_name(<<N_a>>), rtype |-> 16, class |-> ClassIN, data |-> <<10, 0, 0, 1>>],
     [name |-> wire_name(<<N_a>>), rtype |-> TypeA, class |-> 3, data |-> <<10, 0, 0, 1>>]}

\* the datagram of a peer: a response header that declares qd questions and an
\* answers, then the questions qs and the records as
peer_datagram(qs, as, qd, an) ==
    datagram([DnsHeader_new(4660) EXCEPT !.qr = TRUE, !.ancount = an], qd,
             [i \in 1..Len(qs) |-> wire_question(qs[i].name, qs[i].qtype, qs[i].qclass)],
             Concat([i \in 1..Len(as) |->
                        wire_record(as[i].name, as[i].rtype, as[i].class, as[i].data)]))

\* the sections of a peer's datagram; its first name is written in full
PeerSections ==
    {s \in SeqsUpTo(PeerQuestions, MaxQuestions) \X SeqsUpTo(PeerAnswers, MaxAnswers) :
        s[1] # <<>> => s[1][1].name # <<PointerTag, HeaderLen>>}

\* whole datagrams, declaring the questions present or one more, and no
\* answers, the answers present or one more
PeerDatagrams ==
    UNION {{peer_datagram(s[1], s[2], Len(s[1]) + dq, an) :
               dq \in {0, 1}, an \in {0, Len(s[2]), Len(s[2]) + 1}} :
           s \in PeerSections}

\* the datagrams of supported codes with exact counts, cut at every length
\* from the header on
CutDatagrams ==
    UNION {{SubSeq(peer_datagram(s[1], s[2], Len(s[1]), Len(s[2])), 1, k) :
               k \in HeaderLen..Len(peer_datagram(s[1], s[2], Len(s[1]), Len(s[2])))} :
           s \in {t \in PeerSections :
                     /\ \A i \in 1..Len(t[1]) : t[1][i].qtype = TypeA /\ t[1][i].qclass = ClassIN
                     /\ \A i \in 1..Len(t[2]) : t[2][i].rtype = TypeA /\ t[2][i].class = ClassIN}}

\* the longest label encode_name accepts, ending in a two-byte character
L_longest == Repeat(97, MaxLabel - 2) \o <<195, 169>>

\* the parts of the names handed to encode_name: "a", "google", "com", "é",
\* 63 bytes, 64 bytes, and the empty part
NameLabels ==
    {N_a, <<103, 111, 111, 103, 108, 101>>, <<99, 111, 109>>, <<195, 169>>, L_longest, N_long, <<>>}

\* the &str arguments of encode_name
Names == {join(parts) : parts \in UNION {[1..k -> NameLabels] : k \in 1..MaxLabels}}

\* the headers handed to to_bytes: every combination of the flag bits, opcode,
\* z and rcode at 0, at the largest value of their width and one past it (the
\* fields are u8), with small and large ids and counts
Headers ==
    {[id |-> c[1], qr |-> f[1], opcode |-> o, aa |-> f[2], tc |-> f[3], rd |-> f[4],
      ra |-> f[5], z |-> z, rcode |-> rc, qdcount |-> c[2], ancount |-> c[1],
      nscount |-> c[2], arcount |-> c[1]] :
        f \in [1..5 -> BOOLEAN], o \in {0, 15, 16}, z \in {0, 7, 8}, rc \in {0, 3, 15, 16},
        c \in {<<0, 1>>, <<65535, 258>>}}

\* the byte slices handed to from_bytes: every prefix, the empty one included,
\* of four slices two bytes longer than a header
HeaderSlices ==
    {SubSeq(b, 1, k) :
        b \in {Repeat(0, HeaderLen + 2), Repeat(255, HeaderLen + 2),
               [i \in 1..(HeaderLen + 2) |-> 17 * i],
               <<18, 52, 129, 131, 0, 1, 0, 0, 0, 0, 0, 0, 3, 119>>},
        k \in 0..(HeaderLen + 2)}

\* the names handed to add_record and lookup: localhost, LocalHost,
\* sub.localhost, host, New, new
DbNames ==
    {N_localhost, L_LocalHost, <<115, 117, 98, 46>> \o N_localhost, <<104, 111, 115, 116>>,
     <<78, 101, 119>>, <<110, 101, 119>>}

---------------------------------------------------------------------------
(* decode_name, one loop iteration per step.                               *)

DecodeIdle == buf = <<>> /\ dec = [decode_entry(0) EXCEPT !.st = "idle"]

\* name_parts is kept to Len(d) labels.  A run that returns reads each byte of
\* the buffer at most once, so only a run that never returns has more.
cap(d, s) ==
    IF Len(s.name_parts) > Len(d)
    THEN [s EXCEPT !.name_parts = SubSeq(@, 1, Len(d))]
    ELSE s

decode_loop ==
    /\ dec.st = "run"
    /\ dec' = cap(buf, decode_iter(buf, dec))
    /\ UNCHANGED <<buf, codecVars, serverVars, nameVars, headerVars, added, clientVars>>

---------------------------------------------------------------------------
(* to_bytes, the datagram, from_bytes.                                     *)

NoResult == [st |-> "none", error |-> "", msg |-> DnsMessage_new(0)]

NoBytes == [st |-> "none", bytes |-> <<>>]

CodecIdle ==
    /\ msg = DnsMessage_new(0)
    /\ wire = NoBytes
    /\ data = <<>>
    /\ parsed = NoResult
    /\ cpc = "idle"

CodecStart(messages) ==
    /\ msg \in messages
    /\ wire = NoBytes
    /\ data = <<>>
    /\ parsed = NoResult
    /\ cpc = "new"

\* msg.to_bytes()
Serialize ==
    /\ cpc = "new"
    /\ wire' = DnsMessage_to_bytes(msg)
    /\ cpc' = IF wire'.st = "ok" THEN "wire" ELSE "panicked"
    /\ UNCHANGED <<msg, data, parsed, decodeVars, serverVars, nameVars, headerVars, added, clientVars>>

\* the datagram arrives whole
Deliver ==
    /\ cpc = "wire"
    /\ data' = wire.bytes
    /\ cpc' = "data"
    /\ UNCHANGED <<msg, wire, parsed, decodeVars, serverVars, nameVars, headerVars, added, clientVars>>

\* the datagram arrives cut to its first k bytes
Truncate(k) ==
    /\ cpc = "wire"
    /\ data' = SubSeq(wire.bytes, 1, k)
    /\ cpc' = "data"
    /\ UNCHANGED <<msg, wire, parsed, decodeVars, serverVars, nameVars, headerVars, added, clientVars>>

\* DnsMessage::from_bytes(&data)
Parse ==
    /\ cpc = "data"
    /\ parsed' = DnsMessage_from_bytes(data)
    /\ cpc' = "parsed"
    /\ UNCHANGED <<msg, wire, data, decodeVars, serverVars, nameVars, headerVars, added, clientVars>>

---------------------------------------------------------------------------
(* encode_name and decode_name on a name.                                  *)

NameIdle ==
    /\ str = <<>>
    /\ enc = NoBytes
    /\ back = [st |-> "none", name |-> <<>>, offset |-> 0, error |-> ""]
    /\ npc = "idle"

NameStart(names) ==
    /\ str \in names
    /\ enc = NoBytes
    /\ back = [st |-> "none", name |-> <<>>, offset |-> 0, error |-> ""]
    /\ npc = "new"

\* DnsQuestion::encode_name(&str)
EncodeName ==
    /\ npc = "new"
    /\ enc' = IF encode_name_panics(str) THEN [st |-> "panic", bytes |-> <<>>]
              ELSE [st |-> "ok", bytes |-> encode_name(str)]
    /\ npc' = IF enc'.st = "ok" THEN "encoded" ELSE "panicked"
    /\ UNCHANGED <<str, back, decodeVars, codecVars, serverVars, headerVars, added, clientVars>>

\* DnsQuestion::decode_name(&enc, &mut 0)
DecodeName ==
    /\ npc = "encoded"
    /\ back' = decode_name(enc.bytes, 0)
    /\ npc' = "decoded"
    /\ UNCHANGED <<str, enc, decodeVars, codecVars, serverVars, headerVars, added, clientVars>>

---------------------------------------------------------------------------
(* DnsHeader::to_bytes and DnsHeader::from_bytes, in both orders.          *)

NoHeader == [st |-> "none", error |-> "", header |-> DnsHeader_new(0)]

HeaderIdle ==
    /\ hdr = DnsHeader_new(0)
    /\ hdr_bytes = <<>>
    /\ hdr_back = NoHeader
    /\ hdr_again = <<>>
    /\ hpc = "idle"

\* a header to serialize
HeaderStart(headers) ==
    /\ hdr \in headers
    /\ hdr_bytes = <<>>
    /\ hdr_back = NoHeader
    /\ hdr_again = <<>>
    /\ hpc = "header"

\* bytes to parse
BytesStart(inputs) ==
    /\ hdr = DnsHeader_new(0)
    /\ hdr_bytes \in inputs
    /\ hdr_back = NoHeader
    /\ hdr_again = <<>>
    /\ hpc = "bytes"

\* hdr.to_bytes()
HeaderToBytes ==
    /\ hpc = "header"
    /\ hdr_bytes' = DnsHeader_to_bytes(hdr)
    /\ hpc' = "serialized"
    /\ UNCHANGED <<hdr, hdr_back, hdr_again, decodeVars, codecVars, serverVars, nameVars, added, clientVars>>

\* DnsHeader::from_bytes(&hdr_bytes), on the bytes of hdr or on the input
HeaderFromBytes ==
    /\ hpc \in {"serialized", "bytes"}
    /\ hdr_back' = DnsHeader_from_bytes(hdr_bytes)
    /\ hpc' = IF hpc = "serialized" THEN "returned"
              ELSE IF hdr_back'.st = "ok" THEN "parsed" ELSE "failed"
    /\ UNCHANGED <<hdr, hdr_bytes, hdr_again, decodeVars, codecVars, serverVars, nameVars, added, clientVars>>

\* the header parsed from the input, serialized again: header.to_bytes()
HeaderBackToBytes ==
    /\ hpc = "parsed"
    /\ hdr_again' = DnsHeader_to_bytes(hdr_back.header)
    /\ hpc' = "reserialized"
    /\ UNCHANGED <<hdr, hdr_bytes, hdr_back, decodeVars, codecVars, serverVars, nameVars, added, clientVars>>

---------------------------------------------------------------------------
(* Specifications.                                                         *)

DecodeInit ==
    /\ buf \in DecodeBuffers
    /\ \E offset \in 0..Len(buf) : dec = decode_entry(offset)
    /\ CodecIdle
    /\ ServerIdle
    /\ NameIdle
    /\ HeaderIdle
    /\ added = <<>>
    /\ ClientIdle

DecodeNext == decode_loop

\* a thread inside decode_name runs its next iteration
DecodeSpec == DecodeInit /\ [][DecodeNext]_vars /\ WF_vars(decode_loop)

CodecInit == DecodeIdle /\ CodecStart(Messages) /\ ServerIdle /\ NameIdle /\ HeaderIdle /\ added = <<>> /\ ClientIdle

CodecNext == Serialize \/ Deliver \/ Parse

CodecSpec == CodecInit /\ [][CodecNext]_vars

TruncInit == DecodeIdle /\ CodecStart(Responses) /\ ServerIdle /\ NameIdle /\ HeaderIdle /\ added = <<>> /\ ClientIdle

TruncNext == Serialize \/ (\E k \in 0..Len(wire.bytes) : Truncate(k)) \/ Parse

TruncSpec == TruncInit /\ [][TruncNext]_vars

HandlerInit == DecodeIdle /\ CodecIdle /\ ServerStart /\ NameIdle /\ HeaderIdle /\ added = <<>> /\ ClientIdle

\* one datagram and the handler spawned for it
HandlerNext ==
    \/ tasks = <<>> /\ \E d \in QueryDatagrams : recv_from(d, "client1")
    \/ handler_step

HandlerSpec == HandlerInit /\ [][HandlerNext]_vars

ServerInit == DecodeIdle /\ CodecIdle /\ ServerNew /\ NameIdle /\ HeaderIdle /\ added = <<>> /\ ClientIdle

ServerNext ==
    \/ \E bound \in BOOLEAN : DnsServer_new(bound)
    \/ Len(tasks) < MaxDatagrams /\ \E d \in ConcurrentDatagrams, a \in Addrs : recv_from(d, a)
    \/ recv_error
    \/ handler_step

\* the runtime polls a spawned handler whenever a worker thread is free, and a
\* handler that is being run goes on to its next step
ServerSpec == ServerInit /\ [][ServerNext]_vars /\ WF_vars(handler_step)

NameInit == DecodeIdle /\ CodecIdle /\ ServerIdle /\ NameStart(Names) /\ HeaderIdle /\ added = <<>> /\ ClientIdle

NameNext == EncodeName \/ DecodeName

NameSpec == NameInit /\ [][NameNext]_vars

HeaderInit ==
    /\ DecodeIdle /\ CodecIdle /\ ServerIdle /\ NameIdle /\ added = <<>> /\ ClientIdle
    /\ HeaderStart(Headers) \/ BytesStart(HeaderSlices)

HeaderNext == HeaderToBytes \/ HeaderFromBytes \/ HeaderBackToBytes

HeaderSpec == HeaderInit /\ [][HeaderNext]_vars

\* a datagram of a peer is handed to DnsMessage::from_bytes
WireInit ==
    /\ DecodeIdle /\ ServerIdle /\ NameIdle /\ HeaderIdle /\ added = <<>> /\ ClientIdle
    /\ msg = DnsMessage_new(0)
    /\ wire = NoBytes
    /\ data \in PeerDatagrams \cup CutDatagrams
    /\ parsed = NoResult
    /\ cpc = "data"

WireSpec == WireInit /\ [][Parse]_vars

---------------------------------------------------------------------------
(* DnsClient::query, called by main and by compare_with_public_dns on the  *)
(* one socket of the client.  calls holds one record per call, the last    *)
(* being the call in progress; outbox the datagrams the socket sent;       *)
(* inbox the datagrams queued at the socket, each with its sender and the  *)
(* request it answers (re, 0 for a datagram nobody asked for).             *)

\* the server of main's query, then the public servers of the comparison
Servers == <<"127.0.0.1:5353", "8.8.8.8:53", "1.1.1.1:53", "9.9.9.9:53">>

\* the call in progress has sent its request and waits in socket.recv
Waiting == calls # <<>> /\ calls[Len(calls)].st = "waiting"

finish(outcome) == calls' = [calls EXCEPT ![Len(calls)] = [@ EXCEPT !.st = "done", !.outcome = outcome]]

\* query up to send_to: new_query, to_bytes, send_to(&query_bytes, server)
\* returning Ok or Err.  main calls query once and goes on to the comparison
\* only if it returned Ok; the comparison goes on whatever its calls return
query_send(domain, id, ok) ==
    /\ Len(calls) < MaxCalls /\ Len(calls) < Len(Servers)
    /\ \/ calls = <<>>
       \/ Len(calls) = 1 /\ calls[1].st = "done" /\ calls[1].outcome = "message"
       \/ Len(calls) > 1 /\ calls[Len(calls)].st = "done"
    /\ LET server == Servers[Len(calls) + 1]
           call == [domain |-> domain, server |-> server, id |-> id, st |-> "waiting",
                    outcome |-> "", from |-> "", re |-> 0, got |-> <<>>,
                    result |-> DnsMessage_new(0)]
           b == DnsMessage_to_bytes(DnsMessage_new_query(id, domain, TypeA)) IN
       /\ calls' = Append(calls, IF b.st # "ok" THEN [call EXCEPT !.st = "panic"]
                                 ELSE IF ok THEN call
                                 ELSE [call EXCEPT !.st = "done", !.outcome = "send_error"])
       /\ outbox' = IF b.st = "ok" /\ ok
                    THEN Append(outbox, [to |-> server, bytes |-> b.bytes, call |-> Len(calls) + 1])
                    ELSE outbox
    /\ UNCHANGED <<inbox, decodeVars, codecVars, serverVars, nameVars, headerVars, added>>

\* a datagram reaches the socket: sent by the server of request k in answer to
\* it, or by some other host (k = 0); d = <<>> stands for what a server
\* running handle_query answers to the request
datagram_arrives(k, d) ==
    /\ Len(inbox) < MaxInbox
    /\ k \in 0..Len(outbox)
    /\ inbox' = Append(inbox, [from |-> IF k = 0 THEN "203.0.113.9:53" ELSE outbox[k].to,
                               bytes |-> IF d # <<>> THEN d
                                         ELSE respond(SimpleDnsDatabase_new, "release",
                                                      DnsMessage_from_bytes(outbox[k].bytes).msg).bytes,
                               re |-> k])
    /\ UNCHANGED <<calls, outbox, decodeVars, codecVars, serverVars, nameVars, headerVars, added>>

\* socket.recv(&mut buffer) returns Ok(size) with the first queued datagram,
\* and DnsMessage::from_bytes(&buffer[..size])? runs on it
query_recv ==
    /\ Waiting
    /\ inbox # <<>>
    /\ inbox' = Tail(inbox)
    /\ LET m == Head(inbox)
           size == IF Len(m.bytes) < BufLen THEN Len(m.bytes) ELSE BufLen
           seen == [calls[Len(calls)] EXCEPT !.from = m.from, !.re = m.re, !.got = SubSeq(m.bytes, 1, size)] IN
       calls' = [calls EXCEPT ![Len(calls)] =
           bind(DnsMessage_from_bytes(seen.got), LAMBDA r :
               IF r.st = "ok" THEN [seen EXCEPT !.st = "done", !.outcome = "message", !.result = r.msg]
               ELSE IF r.st = "err" THEN [seen EXCEPT !.st = "done", !.outcome = "parse_error"]
               ELSE IF r.st = "panic" THEN [seen EXCEPT !.st = "panic"]
               ELSE [seen EXCEPT !.st = "spin"])]
    /\ UNCHANGED <<outbox, decodeVars, codecVars, serverVars, nameVars, headerVars, added>>

\* query_timeout that sends the request again before giving up
query_timeout_retransmits ==
    /\ Waiting
    /\ inbox = <<>>
    /\ finish("timeout")
    /\ outbox' = Append(outbox, [to |-> calls[Len(calls)].server, bytes |-> <<>>, call |-> Len(calls)])
    /\ UNCHANGED <<inbox, decodeVars, codecVars, serverVars, nameVars, headerVars, added>>

\* the timeout elapses with nothing queued: Err(_) => "Timeout après {}ms"
query_timeout ==
    /\ Waiting
    /\ inbox = <<>>
    /\ finish("timeout")
    /\ outbox' = outbox
    /\ UNCHANGED <<inbox, decodeVars, codecVars, serverVars, nameVars, headerVars, added>>

\* socket.recv returns Err(e): Ok(Err(e)) => "Erreur réception"
query_recv_error ==
    /\ Waiting
    /\ finish("recv_error")
    /\ UNCHANGED <<outbox, inbox, decodeVars, codecVars, serverVars, nameVars, headerVars, added>>

ClientInit ==
    DecodeIdle /\ CodecIdle /\ ServerIdle /\ NameIdle /\ HeaderIdle /\ added = <<>> /\ ClientIdle

ClientNext ==
    \/ \E domain \in {N_localhost, [i \in 1..(MaxLabel + 1) |-> 97]}, id \in {4660, 22136}, ok \in BOOLEAN : query_send(domain, id, ok)
    \/ \E k \in 0..Len(outbox) : datagram_arrives(k, IF k = 0 THEN D_with_answer ELSE <<>>)
    \/ \E k \in 1..Len(outbox), d \in {D_half_pointer, D_self_pointer, D_short} : datagram_arrives(k, d)
    \/ query_recv
    \/ query_timeout
    \/ query_recv_error

\* a call that waits either receives or reaches its deadline
ClientSpec ==
    ClientInit /\ [][ClientNext]_vars /\ WF_vars(query_recv \/ query_timeout \/ query_recv_error)

\* db.add_record(name, ip) on a database built by SimpleDnsDatabase::new
AddRecord(name, ip) ==
    /\ Len(added) < MaxAdds
    /\ database' = add_record(database, name, ip)
    /\ added' = Append(added, <<name, ip>>)
    /\ UNCHANGED <<build, buffer, tasks, sent, recv_errors, server_pc, decodeVars, codecVars,
                   nameVars, headerVars, clientVars>>

DbInit ==
    /\ DecodeIdle /\ CodecIdle /\ NameIdle /\ HeaderIdle /\ ClientIdle
    /\ build = "release"
    /\ database = SimpleDnsDatabase_new
    /\ buffer = <<>>
    /\ tasks = <<>>
    /\ sent = <<>>
    /\ recv_errors = 0
    /\ server_pc = "idle"
    /\ added = <<>>

DbSpec ==
    DbInit /\ [][\E name \in DbNames, ip \in {<<10, 0, 0, 1>>, <<10, 0, 0, 2>>} : AddRecord(name, ip)]_vars

Spec == CodecSpec

---------------------------------------------------------------------------
(* Claims.                                                                 *)

\* every label of the name is at most 63 bytes
LabelsFit(name) == ~encode_name_panics(name)

\* the message's values are inside their declared widths and no label is
\* longer than 63 bytes
InWidths(m) ==
    /\ m.header.id < 65536 /\ m.header.opcode < 16 /\ m.header.z < 8 /\ m.header.rcode < 16
    /\ m.header.qdcount = Len(m.questions) /\ m.header.ancount = Len(m.answers)
    /\ m.header.nscount < 65536 /\ m.header.arcount < 65536
    /\ \A i \in 1..Len(m.questions) : LabelsFit(m.questions[i].name)
    /\ \A i \in 1..Len(m.answers) :
           /\ LabelsFit(m.answers[i].name)
           /\ m.answers[i].ttl[1] < 65536 /\ m.answers[i].ttl[2] < 65536
           /\ Len(m.answers[i].data) < 65536

\* C1: for any message with non-compressed names and values inside their
\* widths, from_bytes(to_bytes(m)) succeeds and reproduces the header and
\* every question and answer, in order.
C1_RoundTrip ==
    (cpc = "parsed" /\ InWidths(msg)) =>
        /\ parsed.st = "ok"
        /\ parsed.msg.header = msg.header
        /\ parsed.msg.questions = msg.questions
        /\ parsed.msg.answers = msg.answers

\* C3: decode_name terminates, with a name or a parse error, for every buffer
\* and every starting offset.
C3_DecodeTerminates == <>(dec.st # "run")

\* the offset where the answer section of the serialized msg begins
AnswerStart(m) ==
    HeaderLen + Len(Concat([i \in 1..Len(m.questions) |-> DnsQuestion_to_bytes(m.questions[i])]))

\* the offset just past answer i of the serialized msg
AnswerEnd(m, i) ==
    AnswerStart(m) + Len(Concat([j \in 1..i |-> DnsRecord_to_bytes(m.answers[j])]))

\* the answers of msg that lie whole in its first k bytes
ReadableAnswers(m, k) ==
    LET n == Cardinality({i \in 1..Len(m.answers) : AnswerEnd(m, i) <= k}) IN
    SubSeq(m.answers, 1, n)

\* the datagram was cut inside the answer section
CutInAnswers == cpc = "parsed" /\ AnswerStart(msg) <= Len(data) /\ Len(data) < Len(wire.bytes)

\* C4: a datagram cut anywhere inside an answer record parses successfully to
\* exactly the answers that were fully readable.
C4_TruncatedAnswersLenient ==
    CutInAnswers =>
        /\ parsed.st = "ok"
        /\ parsed.msg.answers = ReadableAnswers(msg, Len(data))

\* the buffer ends before the terminator, inside a label, or inside a pointer
EndsEarly(d, s) ==
    \/ s.offset >= Len(d)
    \/ /\ s.offset < Len(d)
       /\ \/ d[s.offset + 1] >= PointerTag /\ s.offset + 1 >= Len(d)
          \/ d[s.offset + 1] \in 1..(PointerTag - 1) /\ s.offset + 1 + d[s.offset + 1] > Len(d)

\* C5: decode_name returns a parse error, and neither panics nor returns a
\* name, whenever the buffer ends before the terminating zero byte, before a
\* declared label is complete, or between the two bytes of a pointer.
C5_TruncatedNameIsParseError ==
    [][(dec.st = "run" /\ EndsEarly(buf, dec)) => dec'.st = "err"]_vars

\* the datagrams whose parsing never returns
Endless == {d \in ConcurrentDatagrams : DnsMessage_from_bytes(d).st = "diverge"}

\* handler i is spawned for a datagram whose parsing returns
Returns(i) == i <= Len(tasks) /\ tasks[i].data \notin Endless

\* C2: units of work never block each other: whatever the other datagrams
\* received are, a handler whose own datagram can be parsed in finite time
\* runs to completion.
C2_HandlersNeverBlocked ==
    \A i \in 1..MaxDatagrams : Returns(i) ~> (i <= Len(tasks) /\ tasks[i].st = "done")

\* handler i has built and serialized its response
Replied(i) == tasks[i].reply.st = "ok"

\* handler i got past parsing and has come to the send or to its end
Processed(i) ==
    \/ tasks[i].st = "built"
    \/ tasks[i].st = "done" /\ tasks[i].outcome \in {"sent", "send_error"}
    \/ tasks[i].st = "done" /\ tasks[i].outcome = "panicked" /\ tasks[i].query.questions # <<>>

\* C6: in every response the server serializes, qdcount, ancount, nscount and
\* arcount are the numbers of questions, answers, authority and additional
\* records emitted, whatever counts the incoming header declared.
C6_ReplyCountsMatchSections ==
    \A i \in 1..Len(tasks) :
        Replied(i) =>
            LET m == tasks[i].reply.response IN
            /\ m.header.qdcount = Len(m.questions)
            /\ m.header.ancount = Len(m.answers)
            /\ m.header.nscount = Len(m.authorities)
            /\ m.header.arcount = Len(m.additionals)

\* the question is of type A and its name is in the seed table
Resolves(question) ==
    question.qtype = TypeA /\ lookup(SimpleDnsDatabase_new, question.name) # <<>>

\* the A record the server answers a resolving question with
AnswerFor(question) ==
    DnsRecord_new_a_record(question.name, lookup(SimpleDnsDatabase_new, question.name)[1],
                           u32(0, AnswerTtl))

\* the query of handler i is a single question of type A
SingleA(i) == Len(tasks[i].query.questions) = 1 /\ tasks[i].query.questions[1].qtype = TypeA

\* C7: a single type-A question for a name of the seed table, in any letter
\* case, yields a reply with exactly one answer carrying the seeded address
\* and ttl 300, and rcode 0.
C7_PresentNameAnswered ==
    \A i \in 1..Len(tasks) :
        (Processed(i) /\ SingleA(i) /\ Resolves(tasks[i].query.questions[1])) =>
            /\ Replied(i)
            /\ tasks[i].reply.response.answers = <<AnswerFor(tasks[i].query.questions[1])>>
            /\ tasks[i].reply.response.header.rcode = 0

\* C8: a single type-A question for a name absent from the database yields a
\* reply with zero answers and rcode 3.
C8_AbsentNameIsNxdomain ==
    \A i \in 1..Len(tasks) :
        (Processed(i) /\ SingleA(i) /\ ~Resolves(tasks[i].query.questions[1])) =>
            /\ Replied(i)
            /\ tasks[i].reply.response.answers = <<>>
            /\ tasks[i].reply.response.header.rcode = NXDOMAIN

\* the rcode a question that does not resolve sets
FailureCode(question) == IF question.qtype = TypeA THEN NXDOMAIN ELSE NOTIMP

\* the positions of the questions that do not resolve
Failing(questions) == {k \in 1..Len(questions) : ~Resolves(questions[k])}

\* the last question that does not resolve
LastFailing(questions) ==
    questions[CHOOSE k \in Failing(questions) : \A j \in Failing(questions) : j <= k]

\* the A records of the questions that resolve, in question order
RECURSIVE ResolvedAnswers(_)
ResolvedAnswers(questions) ==
    IF questions = <<>> THEN <<>>
    ELSE (IF Resolves(Head(questions)) THEN <<AnswerFor(Head(questions))>> ELSE <<>>)
             \o ResolvedAnswers(Tail(questions))

\* the query of handler i carries more than one question
SeveralQuestions(i) == Len(tasks[i].query.questions) > 1

\* C9 as stated: with more than one question the reply's rcode shows only the
\* last question's result (0 on success, 3, 4), and the answers of earlier
\* questions remain in the answer list.
C9_RcodeIsLastQuestions ==
    \A i \in 1..Len(tasks) :
        (Replied(i) /\ SeveralQuestions(i)) =>
            LET questions == tasks[i].query.questions
                last == questions[Len(questions)]
            IN /\ tasks[i].reply.response.header.rcode =
                      (IF Resolves(last) THEN 0 ELSE FailureCode(last))
               /\ tasks[i].reply.response.answers = ResolvedAnswers(questions)

\* C9 as amended: with more than one question only a question that fails
\* overwrites rcode: the reply's rcode is that of the last failing question
\* (3 or 4), or the incoming header's rcode when every question resolves, and
\* the answers of all resolving questions remain in the answer list.
C9_RcodeIsLastFailures ==
    \A i \in 1..Len(tasks) :
        (Replied(i) /\ SeveralQuestions(i)) =>
            LET questions == tasks[i].query.questions IN
            /\ tasks[i].reply.response.header.rcode =
                   (IF Failing(questions) = {} THEN tasks[i].query.header.rcode
                    ELSE FailureCode(LastFailing(questions)))
            /\ tasks[i].reply.response.answers = ResolvedAnswers(questions)

\* a reply to a question that fails followed by a question that resolves: its
\* rcode is the failure's and its answer list holds the answer
C9_FailureThenSuccess ==
    \E i \in 1..Len(tasks) :
        /\ Replied(i)
        /\ Len(tasks[i].query.questions) = 2
        /\ ~Resolves(tasks[i].query.questions[1])
        /\ Resolves(tasks[i].query.questions[2])
        /\ tasks[i].reply.response.header.rcode = FailureCode(tasks[i].query.questions[1])
        /\ Len(tasks[i].reply.response.answers) = 1

\* C10: the reply's answer list is, in question order, one A record with ttl
\* 300 per resolving type-A question, ancount is the incoming ancount plus one
\* per such record, and a question that fails sets rcode to 3 (type A) or 4.
C10_PerQuestionProcessing ==
    \A i \in 1..Len(tasks) :
        Replied(i) =>
            LET questions == tasks[i].query.questions IN
            /\ tasks[i].reply.response.answers = ResolvedAnswers(questions)
            /\ tasks[i].reply.response.header.ancount =
                   tasks[i].query.header.ancount + Len(ResolvedAnswers(questions))
            /\ Failing(questions) # {} =>
                   tasks[i].reply.response.header.rcode = FailureCode(LastFailing(questions))

\* the reply in sent[k] reads as a message with the questions of datagram d
RepeatsQuestions(k, d) ==
    bind(DnsMessage_from_bytes(sent[k].bytes), LAMBDA reply :
        /\ reply.st = "ok"
        /\ reply.msg.questions = DnsMessage_from_bytes(d).msg.questions)

\* the reply in sent[k] carries the id of datagram d, qr and ra
AnswersDatagram(k, d) ==
    /\ rd16(sent[k].bytes, 0) = rd16(d, 0)
    /\ header_of(sent[k].bytes).qr
    /\ header_of(sent[k].bytes).ra

\* C11: under any interleaving of the handlers, each reply sent carries the id
\* of the datagram its handler was spawned for, has qr and ra set, repeats
\* that datagram's questions, and goes to that datagram's sender.
C11_ReplyBelongsToItsDatagram ==
    \A k \in 1..Len(sent) :
        /\ sent[k].to = tasks[sent[k].task].client_addr
        /\ AnswersDatagram(k, tasks[sent[k].task].data)
        /\ RepeatsQuestions(k, tasks[sent[k].task].data)

\* the id, flag and address part of C11 alone
C11_IdFlagsAndSender ==
    \A k \in 1..Len(sent) :
        /\ sent[k].to = tasks[sent[k].task].client_addr
        /\ AnswersDatagram(k, tasks[sent[k].task].data)

\* handler i ended on a parse error or on a send failure
HandlerFailed(i) ==
    tasks[i].st = "done" /\ tasks[i].outcome \in {"dropped", "send_error"}

\* the receive loop takes a datagram
Receives == \E d \in ConcurrentDatagrams, a \in Addrs : recv_from(d, a)

\* C12: after a handler parse error, a handler send failure or a receive
\* error the server is still in its receive loop and able to accept further
\* datagrams; only a bind failure at startup stops it.
C12_LoopSurvivesErrors ==
    /\ (recv_errors > 0 \/ \E i \in 1..Len(tasks) : HandlerFailed(i)) =>
           (server_pc = "recv" /\ ENABLED Receives)
    /\ server_pc = "exit" => (tasks = <<>> /\ recv_errors = 0)

\* a receive error, a dropped datagram and a failed send have all happened, and
\* a datagram received after the first of them was answered
C12_ServedAfterErrors ==
    /\ recv_errors > 0
    /\ \E i, j, k \in 1..Len(tasks) :
           /\ i < k /\ j < k
           /\ tasks[i].outcome = "dropped"
           /\ tasks[j].outcome = "send_error"
           /\ tasks[k].outcome = "sent"
    /\ server_pc = "recv"

\* the crafted datagrams DnsMessage::from_bytes does not return a message for
Unparsable == {d \in CraftedDatagrams : DnsMessage_from_bytes(d).st # "ok"}

\* the crafted datagrams DnsMessage::from_bytes returns Err for
Rejected == {d \in CraftedDatagrams : DnsMessage_from_bytes(d).st = "err"}

\* handler i returned Ok(()) from its parse branch and nothing was sent for it
SilentlyDropped(i) ==
    /\ tasks[i].st = "done"
    /\ tasks[i].outcome = "dropped"
    /\ \A k \in 1..Len(sent) : sent[k].task # i

\* C13: for every received datagram that fails to parse as a message, the
\* handler sends no reply at all and ends without error: the packet is
\* silently dropped.
C13_UnparsableSilentlyDropped ==
    \A i \in 1..Len(tasks) :
        (tasks[i].data \in Unparsable /\ tasks[i].st # "spawned") => SilentlyDropped(i)

\* C13 for the datagrams from_bytes returns Err for
C13_RejectedSilentlyDropped ==
    \A i \in 1..Len(tasks) :
        (tasks[i].data \in Rejected /\ tasks[i].st # "spawned") => SilentlyDropped(i)

\* some part of the name is longer than 63 bytes
HasLongLabel(name) == \E i \in 1..Len(split(name)) : Len(split(name)[i]) > MaxLabel

\* C15: encoding a name with a label longer than 63 bytes returns a failure
\* outcome to the caller and produces no bytes; every name whose labels are all
\* at most 63 bytes encodes successfully.
C15_LongLabelIsReturnedFailure ==
    npc \notin {"idle", "new"} =>
        IF HasLongLabel(str) THEN enc.st = "err" /\ enc.bytes = <<>>
        ELSE enc.st = "ok"

\* the second half of C15 alone, and no bytes for a long label
C15_ShortLabelsEncode ==
    npc \notin {"idle", "new"} =>
        IF HasLongLabel(str) THEN enc.st # "ok" /\ enc.bytes = <<>>
        ELSE enc.st = "ok"

\* the name is one or more labels of 1 to 63 bytes
PlainName(name) ==
    \A i \in 1..Len(split(name)) : Len(split(name)[i]) \in 1..MaxLabel

\* [6]"google"[3]"com"[0]
GoogleComBytes == <<6, 103, 111, 111, 103, 108, 101, 3, 99, 111, 109, 0>>

\* C18: encode_name("google.com") is [6]"google"[3]"com"[0], and for every
\* name of one or more labels of 1 to 63 bytes decode_name(encode_name(n), 0)
\* returns n and leaves the cursor at len(encode_name(n)), 12 for google.com.
C18_EncodeThenDecode ==
    /\ (str = N_google_com /\ npc \in {"encoded", "decoded"}) => enc.bytes = GoogleComBytes
    /\ (str = N_google_com /\ npc = "decoded") => back.offset = 12
    /\ (PlainName(str) /\ npc \in {"encoded", "decoded"}) => enc.st = "ok"
    /\ (PlainName(str) /\ npc = "decoded") =>
           /\ back.st = "ok"
           /\ back.name = str
           /\ back.offset = Len(enc.bytes)

\* google.com went through encode_name and decode_name
C18_GoogleComDecoded ==
    /\ str = N_google_com
    /\ npc = "decoded"
    /\ back.name = N_google_com
    /\ back.offset = 12

\* the header has qr = 1, rd = 1, rcode = 3 and all other flag bits 0
QrRdNxdomain(h) ==
    /\ h.qr /\ h.rd /\ h.rcode = 3
    /\ ~h.aa /\ ~h.tc /\ ~h.ra /\ h.opcode = 0 /\ h.z = 0

\* the flag fields of header h
FlagFields(h) == <<h.qr, h.opcode, h.aa, h.tc, h.rd, h.ra, h.z, h.rcode>>

\* hdr with qr = 1, rd = 1, rcode = 3 was serialized: its flag bytes are b2, b3,
\* and once they are decoded the flag fields are those of hdr
FlagBytesAre(b2, b3) ==
    /\ (QrRdNxdomain(hdr) /\ hpc \in {"serialized", "returned"}) =>
           (hdr_bytes[3] = b2 /\ hdr_bytes[4] = b3)
    /\ (QrRdNxdomain(hdr) /\ hpc = "returned") =>
           (hdr_back.st = "ok" /\ FlagFields(hdr_back.header) = FlagFields(hdr))

\* C16: a header with qr = 1, rd = 1, rcode = 3 and all other bits 0 serializes
\* its two flag bytes to 0x81, 0x83, and decoding them reproduces the fields.
C16_FlagBytes_81_83 == FlagBytesAre(129, 131)

\* C16 amended: the two flag bytes are 0x81, 0x03 (0x83 has ra set as well), and
\* decoding them reproduces the fields.
C16_FlagBytes_81_03 == FlagBytesAre(129, 3)

\* such a header was serialized to 0x81, 0x03 and read back
C16_NxdomainHeaderReturned ==
    /\ QrRdNxdomain(hdr)
    /\ hpc = "returned"
    /\ hdr_bytes[3] = 129 /\ hdr_bytes[4] = 3
    /\ hdr_back.header.qr /\ hdr_back.header.rd /\ hdr_back.header.rcode = 3

\* opcode, z and rcode of h fit their 4, 3 and 4 bits
FitsWidths(h) == h.opcode < 16 /\ h.z < 8 /\ h.rcode < 16

\* C17: from_bytes fails with a parse error on any input shorter than 12 bytes
\* and is otherwise the bit-exact inverse of to_bytes: from_bytes(to_bytes(h)) =
\* h for every header whose opcode, z and rcode fit their widths, and
\* to_bytes(from_bytes(b)) is the first 12 bytes of b for every input of at
\* least 12 bytes.
C17_HeaderCodecInverse ==
    /\ hpc \in {"parsed", "failed", "reserialized"} =>
           /\ Len(hdr_bytes) < HeaderLen => (hdr_back.st = "err" /\ hpc = "failed")
           /\ Len(hdr_bytes) >= HeaderLen => hdr_back.st = "ok"
    /\ (hpc = "returned" /\ FitsWidths(hdr)) => (hdr_back.st = "ok" /\ hdr_back.header = hdr)
    /\ hpc = "reserialized" => hdr_again = SubSeq(hdr_bytes, 1, HeaderLen)

\* a slice longer than a header, with bits set in every field, was parsed and
\* serialized again
C17_SliceReserialized ==
    /\ hpc = "reserialized"
    /\ Len(hdr_bytes) > HeaderLen
    /\ hdr_back.header.opcode = 15 /\ hdr_back.header.z = 7 /\ hdr_back.header.arcount = 65535
    /\ hdr_again = SubSeq(hdr_bytes, 1, HeaderLen)

\* the loop of decode_name is at a compression pointer with both its bytes
AtPointer ==
    /\ dec.st = "run"
    /\ dec.offset + 1 < Len(buf)
    /\ buf[dec.offset + 1] >= PointerTag

\* the loop of decode_name is at a label that lies inside the buffer
AtLabel ==
    /\ dec.st = "run"
    /\ dec.offset < Len(buf)
    /\ buf[dec.offset + 1] \in 1..(PointerTag - 1)
    /\ dec.offset + 1 + buf[dec.offset + 1] <= Len(buf)
    /\ Len(dec.name_parts) < Len(buf)

\* C19: the first pointer decode_name meets fixes the cursor it finally returns
\* at 2 bytes past that pointer, a pointer met after an earlier one does not
\* move the returned cursor again, and the name is the labels read before the
\* pointer followed by the labels read from the jump targets up to a
\* zero-length byte.
C19_PointerCursorRule ==
    [][/\ AtPointer =>
              /\ dec'.st = "run"
              /\ dec'.jumped
              /\ dec'.jump_offset = IF dec.jumped THEN dec.jump_offset ELSE dec.offset + 2
              /\ dec'.offset = (buf[dec.offset + 1] % 64) * 256 + buf[dec.offset + 2]
              /\ dec'.name_parts = dec.name_parts
       /\ (dec.st = "run" /\ dec.jumped) =>
              (dec'.jumped /\ dec'.jump_offset = dec.jump_offset)
       /\ AtLabel =>
              /\ Len(dec'.name_parts) = Len(dec.name_parts) + 1
              /\ SubSeq(dec'.name_parts, 1, Len(dec.name_parts)) = dec.name_parts
              /\ dec'.offset = dec.offset + 1 + buf[dec.offset + 1]
       /\ dec'.st = "ok" =>
              /\ buf[dec.offset + 1] = 0
              /\ dec'.name_parts = dec.name_parts
              /\ dec'.offset = IF dec.jumped THEN dec.jump_offset ELSE dec.offset + 1
      ]_vars

\* decode_name, started at the pointer at offset 2 and sent on by a second
\* pointer at offset 0, returned with the cursor at 4
C19_TwoPointersReturned ==
    /\ buf = <<PointerTag, 3, PointerTag, 0>>
    /\ dec.st = "ok"
    /\ dec.jumped
    /\ dec.offset = 4

\* every question of qs has a type and a class of the enumerations
SupportedQuestions(qs) ==
    \A i \in 1..Len(qs) : qs[i].qtype \in RecordTypes /\ qs[i].qclass = ClassIN

\* every record of as has a type and a class of the enumerations
SupportedAnswers(as) ==
    \A i \in 1..Len(as) : as[i].rtype \in RecordTypes /\ as[i].class = ClassIN

\* whole datagrams with exact counts and a question of an unsupported code
UnsupportedQuestion ==
    {peer_datagram(s[1], s[2], Len(s[1]), Len(s[2])) :
        s \in {t \in PeerSections : ~SupportedQuestions(t[1])}}

\* whole datagrams with exact counts, supported questions and an answer
\* record of an unsupported code
UnsupportedAnswer ==
    {peer_datagram(s[1], s[2], Len(s[1]), Len(s[2])) :
        s \in {t \in PeerSections : SupportedQuestions(t[1]) /\ ~SupportedAnswers(t[2])}}

\* C14: parsing a type or class code outside the enumerated set fails with an
\* unsupported-code error rather than silently accepting or skipping it, both
\* for a question and for an answer record.
C14_UnsupportedCodeFails ==
    (cpc = "parsed" /\ data \in UnsupportedQuestion \cup UnsupportedAnswer) => parsed.st = "err"

\* C14 for questions alone
C14_UnsupportedQuestionFails ==
    (cpc = "parsed" /\ data \in UnsupportedQuestion) =>
        /\ parsed.st = "err"
        /\ parsed.error \in {"Type de question invalide", "Classe de question invalide"}

\* datagrams of supported questions and no answers, cut inside the questions:
\* inside a name, or with fewer than 4 bytes left for type and class
CutInQuestions ==
    UNION {{SubSeq(peer_datagram(s[1], <<>>, Len(s[1]), 0), 1, k) :
               k \in HeaderLen..(Len(peer_datagram(s[1], <<>>, Len(s[1]), 0)) - 1)} :
           s \in {t \in PeerSections : t[1] # <<>> /\ t[2] = <<>> /\ SupportedQuestions(t[1])}}

\* the datagrams with an error in the question section
QuestionErrors == CutInQuestions \cup UnsupportedQuestion

\* a successful parse has header.qdcount questions and at most header.ancount
\* answers
CountsBound ==
    (cpc = "parsed" /\ parsed.st = "ok") =>
        /\ Len(parsed.msg.questions) = parsed.msg.header.qdcount
        /\ Len(parsed.msg.answers) <= parsed.msg.header.ancount

\* C20: from_bytes parses exactly qdcount questions and up to ancount answers,
\* and any error while reading a question (truncated name, fewer than 4 bytes
\* left for type and class, unsupported code) fails the whole parse.
C20_ExactQuestionsOrFailure ==
    /\ CountsBound
    /\ (cpc = "parsed" /\ data \in QuestionErrors) => parsed.st = "err"

\* C20 with "no message is returned" for "fails"
C20_ExactQuestionsOrNoMessage ==
    /\ CountsBound
    /\ (cpc = "parsed" /\ data \in QuestionErrors) => parsed.st # "ok"

\* the first question of datagram d starts with a length byte of 64 to 191 and
\* that many bytes follow it
LongLengthByte(d) ==
    /\ Len(d) > HeaderLen
    /\ rd16(d, 4) >= 1
    /\ d[HeaderLen + 1] \in (MaxLabel + 1)..(PointerTag - 1)
    /\ Len(d) >= HeaderLen + 1 + d[HeaderLen + 1]

\* C25: decode_name reports a length byte of 64 to 191 as a parse error even
\* when that many bytes are available, so no decoded name ever contains a label
\* longer than 63 bytes.
C25_BadLabelLengthRejected ==
    \A i \in 1..Len(tasks) :
        (tasks[i].st # "spawned" /\ LongLengthByte(tasks[i].data)) =>
            /\ SilentlyDropped(i)
            /\ \A k \in 1..Len(tasks[i].query.questions) :
                   ~HasLongLabel(tasks[i].query.questions[k].name)

\* the number of replies sent for handler i
SendsOf(i) == Cardinality({k \in 1..Len(sent) : sent[k].task = i})

\* C26: every received datagram that parses as a message leads to exactly one
\* reply send attempt to its sender: no handler that got past parsing ends
\* without attempting the send.
C26_ParsedMeansOneSend ==
    \A i \in 1..Len(tasks) :
        (tasks[i].st = "done" /\ tasks[i].data \notin Unparsable) =>
            /\ tasks[i].outcome \in {"sent", "send_error"}
            /\ SendsOf(i) = IF tasks[i].outcome = "sent" THEN 1 ELSE 0

\* C27: when every question is type A and resolves, the reply's rcode is the
\* rcode field of the received datagram, and a question that resolves never
\* clears an rcode of 3 or 4 set by an earlier question.
C27_RcodeInherited ==
    \A i \in 1..Len(tasks) :
        Replied(i) =>
            LET questions == tasks[i].query.questions IN
            tasks[i].reply.response.header.rcode =
                (IF Failing(questions) = {} THEN header_of(tasks[i].data).rcode
                 ELSE FailureCode(LastFailing(questions)))

\* a reply to a datagram of rcode 5 whose only question resolves carries rcode 5
C27_Rcode5Kept ==
    \E i \in 1..Len(tasks) :
        /\ Replied(i)
        /\ Len(tasks[i].query.questions) = 1
        /\ Resolves(tasks[i].query.questions[1])
        /\ header_of(tasks[i].data).rcode = 5
        /\ tasks[i].reply.response.header.rcode = 5

\* the names of the questions of handler i can all be encoded again
Encodable(i) ==
    \A k \in 1..Len(tasks[i].query.questions) : LabelsFit(tasks[i].query.questions[k].name)

\* C28: for every parseable datagram the reply's ancount is the incoming
\* header's ancount plus the number of resolved type-A questions, computed
\* without wrapping past 65535 and without aborting the handler.
C28_AncountNeverOverflows ==
    \A i \in 1..Len(tasks) :
        (Processed(i) /\ Encodable(i)) =>
            /\ Replied(i)
            /\ tasks[i].reply.response.header.ancount =
                   header_of(tasks[i].data).ancount
                       + Len(ResolvedAnswers(tasks[i].query.questions))

\* the names and addresses SimpleDnsDatabase::new is seeded with, in order
SeedEntries ==
    <<<<N_localhost, <<127, 0, 0, 1>>>>, <<N_test_local, <<192, 168, 1, 100>>>>,
      <<N_server_local, <<192, 168, 1, 1>>>>, <<N_example_com, <<93, 184, 216, 34>>>>,
      <<N_google_com, <<8, 8, 8, 8>>>>>>

\* a letter as its capital, any other byte as it is
Capital(b) == IF b \in 97..122 THEN b - 32 ELSE b

\* the names are equal ignoring letter case
SameIgnoringCase(a, b) ==
    Len(a) = Len(b) /\ \A i \in 1..Len(a) : Capital(a[i]) = Capital(b[i])

\* the address of the most recent entry whose name equals n ignoring case
MostRecent(entries, n) ==
    LET hits == {k \in 1..Len(entries) : SameIgnoringCase(entries[k][1], n)} IN
    IF hits = {} THEN <<>>
    ELSE <<entries[CHOOSE k \in hits : \A j \in hits : j <= k][2]>>

\* the names looked up: those added, the seed names, LOCALHOST, local, and the
\* wildcard *.local
DbProbes ==
    DbNames \cup {SeedEntries[k][1] : k \in 1..Len(SeedEntries)}
        \cup {<<76, 79, 67, 65, 76, 72, 79, 83, 84>>, <<108, 111, 99, 97, 108>>,
              <<42, 46, 108, 111, 99, 97, 108>>}

\* C23: after construction and any sequence of add_record calls, lookup(n)
\* returns the address of the most recent add_record or seed entry whose name
\* equals n ignoring letter case, and not-found if there is none; no suffix or
\* wildcard of n matches, and every stored key is lowercase.
C23_CaseInsensitiveExactMatch ==
    /\ \A n \in DbProbes : lookup(database, n) = MostRecent(SeedEntries \o added, n)
    /\ \A key \in DOMAIN database : \A i \in 1..Len(key) : key[i] \notin 65..90

\* LocalHost was added over the seed entry and then sub.localhost: localhost
\* resolves to the new address, and host, local and *.local to nothing
C23_SeedOverwritten ==
    /\ added = <<<<L_LocalHost, <<10, 0, 0, 1>>>>, <<<<115, 117, 98, 46>> \o N_localhost, <<10, 0, 0, 2>>>>>>
    /\ lookup(database, N_localhost) = <<<<10, 0, 0, 1>>>>
    /\ lookup(database, <<104, 111, 115, 116>>) = <<>>
    /\ lookup(database, <<42, 46, 108, 111, 99, 97, 108>>) = <<>>
    /\ Cardinality(DOMAIN database) = 6

\* the five-entry table SimpleDnsDatabase::new builds
SeedTable ==
    [n \in {SeedEntries[k][1] : k \in 1..Len(SeedEntries)} |->
        SeedEntries[CHOOSE k \in 1..Len(SeedEntries) : SeedEntries[k][1] = n][2]]

\* C24: in every server state after DnsServer::new, whatever datagrams were
\* received and whatever handlers are running, the database the handlers
\* consult is exactly the five-entry seed table.
C24_DatabaseIsSeedTable ==
    server_pc = "recv" =>
        /\ database = SeedTable
        /\ Cardinality(DOMAIN database) = 5

\* all datagrams were received, two handlers are running at once, one of them
\* on a name that is not in the table, and another has sent its response
C24_HandlersRanConcurrently ==
    /\ server_pc = "recv"
    /\ Len(tasks) = MaxDatagrams
    /\ \E i, j, k \in 1..Len(tasks) :
           /\ i # j
           /\ tasks[i].st = "built" /\ tasks[i].reply.response.header.rcode = NXDOMAIN
           /\ tasks[j].st \in {"parsed", "built"}
           /\ tasks[k].outcome = "sent"
    /\ database = SeedTable

\* the outcome of DnsMessage::from_bytes on bytes d, as poll_parse records it
ParsedAs(t, d) ==
    LET r == DnsMessage_from_bytes(d) IN
    \/ r.st = "ok" /\ t.st = "parsed" /\ t.query = r.msg
    \/ r.st = "err" /\ t.st = "done" /\ t.outcome = "dropped"
    \/ r.st = "panic" /\ t.st = "done" /\ t.outcome = "panicked"
    \/ r.st \notin {"ok", "err", "panic"} /\ t.st = "spin"

\* C29: the bytes a handler is spawned with are the first size bytes received
\* into the buffer for its datagram, no later step changes them, in particular
\* not a later datagram received into the same buffer, and what the handler
\* parses is those bytes.
C29_HandlerOwnsItsDatagram ==
    [][/\ \A i \in 1..Len(tasks) :
              /\ tasks'[i].data = tasks[i].data
              /\ (tasks[i].st = "spawned" /\ tasks'[i].st # "spawned") =>
                     ParsedAs(tasks'[i], tasks[i].data)
       /\ Len(tasks') > Len(tasks) =>
              /\ tasks'[Len(tasks')].data \in ConcurrentDatagrams
              /\ tasks'[Len(tasks')].data = SubSeq(buffer', 1, Len(tasks'[Len(tasks')].data))]_vars

\* the first handler parsed its own datagram, of id 0x1234, while the buffer
\* already holds a later datagram of another id
C29_ParsedWhileBufferReused ==
    /\ Len(tasks) >= 2
    /\ tasks[1].st = "parsed"
    /\ rd16(tasks[1].data, 0) = 4660
    /\ tasks[1].query.header.id = 4660
    /\ rd16(buffer, 0) # 4660
    /\ tasks[2].st = "spawned"

\* the datagrams call k has sent
SendsOfCall(k) == {j \in 1..Len(outbox) : outbox[j].call = k}

\* C21: a call of query always completes, with a timeout error when no
\* datagram arrived, a transport error on a send or receive fault, and
\* otherwise the parsed message or the parse error of the datagram received.
C21_QueryCompletesClassified ==
    \A k \in 1..Len(calls) :
        /\ calls[k].st \in {"waiting", "done"}
        /\ calls[k].st = "done" =>
               /\ calls[k].outcome \in {"timeout", "send_error", "recv_error", "message", "parse_error"}
               /\ calls[k].outcome = "timeout" => calls[k].got = <<>>
               /\ calls[k].outcome \in {"message", "parse_error"} => calls[k].got # <<>>

\* C22: no call sends more than one datagram; a call that is waiting or has
\* ended with a reply, a timeout, a receive error or a parse error has sent
\* exactly one, to its server address; the message returned is the parse of
\* the first datagram received, whatever its id.
C22_OneRequestPerCall ==
    \A k \in 1..Len(calls) :
        /\ Cardinality(SendsOfCall(k)) <= 1
        /\ (\/ calls[k].st = "waiting"
            \/ calls[k].outcome \in {"message", "timeout", "recv_error", "parse_error"}
            \/ calls[k].got # <<>>) =>
               /\ Cardinality(SendsOfCall(k)) = 1
               /\ \A j \in SendsOfCall(k) :
                      /\ outbox[j].to = calls[k].server
                      /\ outbox[j].bytes =
                             DnsMessage_to_bytes(DnsMessage_new_query(calls[k].id, calls[k].domain, TypeA)).bytes
        /\ calls[k].outcome = "message" =>
               /\ calls[k].result = DnsMessage_from_bytes(calls[k].got).msg
               /\ calls[k].result.header.id = rd16(calls[k].got, 0)

\* main's query was answered, the second call timed out after its one
\* datagram, and the third returned a message whose id is not the id it sent
C22_ForeignIdAccepted ==
    /\ Len(calls) = 3
    /\ calls[1].outcome = "message"
    /\ calls[2].outcome = "timeout" /\ Cardinality(SendsOfCall(2)) = 1
    /\ calls[3].outcome = "message" /\ Cardinality(SendsOfCall(3)) = 1
    /\ calls[3].result.header.id # calls[3].id

\* C30: a message returned by a call is the reply to the request that call
\* sent, received from the server it queried.
C30_ReplyBelongsToCall ==
    \A k \in 1..Len(calls) :
        calls[k].outcome = "message" =>
            /\ calls[k].re = k
            /\ calls[k].from = calls[k].server

===========================================================================
